---- MODULE Spec2Model ----
(***************************************************************************)
(* Model of the keep-alive component, src/src/core/components/keep-alive.ts *)
(* State: the component's fields cache, keys, vnodeToCache, keyToCache,    *)
(* _vnode and its props include, exclude, max.  One action per hook or     *)
(* watcher: render, cacheVNode (mounted/updated), the include and exclude  *)
(* watchers, destroyed.                                                    *)
(*                                                                         *)
(* Strings that the code splits or compares (component names, include and  *)
(* exclude patterns) are sequences of one-character strings.               *)
(***************************************************************************)
EXTENDS Naturals, Sequences, FiniteSets

\* ---------------------------------------------------------------- bounds
\* Component instances the host may construct in one run.
MaxInst == 3
\* ---------------------------------------------------------------- values
\* vnode keys the host supplies (vnode.key, or cid::tag when key is null)
Keys == {"A", "B", "C"}
\* keyToCache before the first miss
NoKey == "undefined"
\* The values of the max prop that are tried: 0 for an absent (falsy) max,
\* and every capacity that the keys at hand can overflow.
MaxCap == Cardinality(Keys) - 1

\* a falsy component name: undefined, null and "" are all falsy at every use
NoName == << >>
NameA == <<"a">>
NameB == <<"b">>

\* vnode.tag values; the tag of the empty vnode is undefined
TagUndefined == "undefined"
\* stands for a _vnode that is null (before the first render) or for an
\* omitted `current` argument
TagNull == "null"

\* componentInstance of a vnode the cache never holds
NoInst == 0
Insts == 1..MaxInst

\* CacheEntry (lines 8-12); Null is the falsy content of a cache slot:
\* undefined (never set) and null (pruned) are read alike everywhere.
Null == [name |-> NoName, tag |-> TagNull, componentInstance |-> NoInst]

\* a vnode as far as this file reads it: tag, componentInstance and the
\* name _getComponentName derives from componentOptions
NullVNode == [name |-> NoName, tag |-> TagNull, componentInstance |-> NoInst]
EmptyVNode == [name |-> NoName, tag |-> TagUndefined, componentInstance |-> NoInst]
\* a component vnode
VNode(comp, inst) ==
  [name |-> comp.name, tag |-> comp.tag, componentInstance |-> inst]

\* Components the slot may hold: the name _getComponentName derives and the
\* tag of their vnodes (every component has a tag of its own)
CompA == [name |-> NameA, tag |-> "t1"]
CompB == [name |-> NameB, tag |-> "t2"]
CompN == [name |-> NoName, tag |-> "t3"]
Comps == { CompA, CompB, CompN }
Tags == { comp.tag : comp \in Comps }

\* The render requests the host makes: the key of the slot's vnode and its
\* component.  Component A is rendered under the keys A and C (two vnodes
\* of one tag); key C is also used for the nameless component.
Requests == { [key |-> "A", comp |-> CompA],
              [key |-> "B", comp |-> CompB],
              [key |-> "C", comp |-> CompN],
              [key |-> "C", comp |-> CompA] }

\* include / exclude prop values: undefined, a string, an array of strings
Undefined == [kind |-> "undefined"]
Str(s) == [kind |-> "string", str |-> s]
Arr(a) == [kind |-> "array", arr |-> a]
Patterns == { Undefined,
              Str(<<"a", ",", "b">>),
              Arr(<< NameB >>) }
\* the values tried for the exclude prop
ExcludePatterns == { Undefined, Str(<<"b">>) }

\* JavaScript truthiness of a pattern: undefined and "" are falsy
Truthy(p) == /\ p.kind # "undefined"
             /\ ~(p.kind = "string" /\ p.str = << >>)

\* The component's fields and props, then what the host does with the
\* instances (destroyCount: $destroy calls per instance; nextInst: the next
\* instance the host constructs), then history variables that only record
\* what happened: last (the last operation, the entries it removed and, for
\* a commit, the hitKey it found),
\* recency (the live keys by their last admission or hit), hitKey (the key
\* of a lookup hit that nothing but a miss has followed), scenario (the
\* admissions since creation, as long as only misses and commits ran).
\* stale tells that a candidate is staged and that a later render request
\* was served as a hit since it was staged.
\* gate holds one pattern check of render on its own: the name and the
\* include and exclude it is given, and what the check answered.
VARIABLES cache, keys, vnodeToCache, keyToCache, _vnode,
          include, exclude, max, destroyCount, nextInst,
          last, recency, hitKey, scenario, gate, stale

vars == << cache, keys, vnodeToCache, keyToCache, _vnode,
           include, exclude, max, destroyCount, nextInst,
           last, recency, hitKey, scenario, gate, stale >>

props == << include, exclude, max >>

\* ------------------------------------------------------- pure functions
\* Array.prototype.indexOf (lines 25, 27), 1-based; 0 stands for JavaScript's -1
RECURSIVE IndexFrom(_, _, _)
IndexFrom(arr, item, i) ==
  IF i > Len(arr) THEN 0
  ELSE IF arr[i] = item THEN i
  ELSE IndexFrom(arr, item, i + 1)

IndexOf(arr, item) == IndexFrom(arr, item, 1)

\* remove(arr, item) of shared/util: drops one occurrence of item, if any
Remove(arr, item) ==
  LET i == IndexOf(arr, item) IN
  IF i = 0 THEN arr
  ELSE SubSeq(arr, 1, i - 1) \o SubSeq(arr, i + 1, Len(arr))

\* String.prototype.split(','): the pieces between the commas
RECURSIVE SplitFrom(_, _, _)
SplitFrom(s, i, piece) ==
  IF i > Len(s) THEN << piece >>
  ELSE IF s[i] = "," THEN << piece >> \o SplitFrom(s, i + 1, << >>)
  ELSE SplitFrom(s, i + 1, Append(piece, s[i]))

Split(s) == SplitFrom(s, 1, << >>)

\* matches that compares a string pattern as a whole, without split(',')
MatchesNoSplit(pattern, name) ==
  IF pattern.kind = "array" THEN IndexOf(pattern.arr, name) > 0
  ELSE IF pattern.kind = "string" THEN pattern.str = name
  ELSE FALSE

\* matches(pattern, name), lines 20-33 (no RegExp patterns are modelled:
\* an undefined pattern falls through to the final `return false`)
Matches(pattern, name) ==
  IF pattern.kind = "array" THEN IndexOf(pattern.arr, name) > 0
  ELSE IF pattern.kind = "string" THEN IndexOf(Split(pattern.str), name) > 0
  ELSE FALSE

\* the pattern check of render, lines 141-150: TRUE when the vnode is
\* returned without being cached
NotCached(inc, exc, name) ==
  \/ (Truthy(inc) /\ (name = NoName \/ ~Matches(inc, name)))
  \/ (Truthy(exc) /\ name # NoName /\ Matches(exc, name))

\* pruneCacheEntry that leaves the entry in its cache slot
PruneCacheEntryKeepsSlot(c, key, ks, d, current) ==
  LET entry == c[key]
      destroys == /\ entry # Null
                  /\ (current = NullVNode \/ entry.tag # current.tag)
  IN [ cache |-> c,
       keys |-> Remove(ks, key),
       destroyCount |-> IF destroys
                        THEN [d EXCEPT ![entry.componentInstance] = @ + 1]
                        ELSE d ]

\* pruneCacheEntry that never looks at the tag of current
PruneCacheEntryAlwaysDestroys(c, key, ks, d, current) ==
  LET entry == c[key]
  IN [ cache |-> [c EXCEPT ![key] = Null],
       keys |-> Remove(ks, key),
       destroyCount |-> IF entry # Null
                        THEN [d EXCEPT ![entry.componentInstance] = @ + 1]
                        ELSE d ]

\* pruneCacheEntry(cache, key, keys, current), lines 51-64.  d counts the
\* $destroy calls per instance; the result is the three objects it mutates.
PruneCacheEntry(c, key, ks, d, current) ==
  LET entry == c[key]
      destroys == /\ entry # Null
                  /\ (current = NullVNode \/ entry.tag # current.tag)
  IN [ cache |-> [c EXCEPT ![key] = Null],
       keys |-> Remove(ks, key),
       destroyCount |-> IF destroys
                        THEN [d EXCEPT ![entry.componentInstance] = @ + 1]
                        ELSE d ]

\* the for-in loops of pruneCache and destroyed: pruneCacheEntry for every
\* key of S.  Calls for different keys commute, so the visiting order of
\* for-in does not show in the result.
RECURSIVE PruneKeys(_, _, _, _, _)
PruneKeys(c, ks, d, S, current) ==
  IF S = {} THEN [cache |-> c, keys |-> ks, destroyCount |-> d]
  ELSE LET key == CHOOSE k \in S : TRUE
           r == PruneCacheEntry(c, key, ks, d, current)
       IN PruneKeys(r.cache, r.keys, r.destroyCount, S \ {key}, current)

\* pruneCache(keepAliveInstance, filter), lines 35-49; failing is the set of
\* names for which filter(name) is false
PruneCache(c, ks, d, current, failing) ==
  PruneKeys(c, ks, d,
            { key \in Keys : /\ c[key] # Null
                             /\ c[key].name # NoName
                             /\ c[key].name \in failing },
            current)

\* names an entry can carry
Names == { comp.name : comp \in Comps }

\* ------------------------------------------------------------ the state
\* no pattern check is under way
GateIdle == [name |-> NoName, include |-> Undefined, exclude |-> Undefined,
             done |-> TRUE, returned |-> FALSE]

\* keys of the live (truthy) cache slots
Live(c) == { key \in Keys : c[key] # Null }

\* the entries a step removed from the cache c, with their keys
Removed(c, c2) == { [key |-> key, entry |-> c[key]] : key \in Live(c) \ Live(c2) }

\* history: key was admitted or hit just now, it is the most recent one
Touch(rec, key) == SelectSeq(rec, LAMBDA k : k # key) \o << key >>
\* history: the keys that no longer have a live entry leave the ranking
Still(rec, c2) == SelectSeq(rec, LAMBDA k : c2[k] # Null)

\* history: something else than a miss or a commit ran
Spoilt == [pure |-> FALSE, log |-> << >>]

TypeOK ==
  /\ cache \in [Keys -> [name : Names, tag : Tags \cup {TagNull},
                         componentInstance : Insts \cup {NoInst}]]
  /\ keys \in Seq(Keys)
  /\ keyToCache \in Keys \cup {NoKey}
  /\ include \in Patterns
  /\ exclude \in ExcludePatterns
  /\ max \in 0..MaxCap
  /\ destroyCount \in [Insts -> Nat]
  /\ nextInst \in 1..(MaxInst + 1)
  /\ hitKey \in Keys \cup {NoKey}

\* created(), lines 103-106, with the props given at construction;
\* max = 0 stands for an absent (falsy) max prop
Init ==
  /\ cache = [key \in Keys |-> Null]
  /\ keys = << >>
  /\ vnodeToCache = NullVNode
  /\ keyToCache = NoKey
  /\ _vnode = NullVNode
  /\ include \in Patterns
  /\ exclude \in ExcludePatterns
  /\ max \in 0..MaxCap
  /\ destroyCount = [i \in Insts |-> 0]
  /\ nextInst = 1
  /\ last = [op |-> "created", key |-> NoKey, removed |-> {}, hit |-> NoKey]
  /\ recency = << >>
  /\ hitKey = NoKey
  /\ scenario = [pure |-> TRUE, log |-> << >>]
  /\ gate = GateIdle
  /\ stale = FALSE

\* vm._update(vnode) of the host: the vnode render returned becomes _vnode
\* (its tag and componentInstance; nothing here reads the name of _vnode)
HostUpdate(vnode) == [vnode EXCEPT !.name = NoName]

\* render(), lines 128-135 and 194: the slot holds no component vnode
RenderEmpty ==
  /\ _vnode' = HostUpdate(EmptyVNode)
  /\ last' = [op |-> "empty", key |-> NoKey, removed |-> {}, hit |-> NoKey]
  /\ hitKey' = NoKey
  /\ scenario' = Spoilt
  /\ UNCHANGED << stale, gate, cache, keys, vnodeToCache, keyToCache, props,
                  destroyCount, nextInst, recency >>

\* render(), lines 139-153: the name fails include / exclude
RenderNotCached(key, comp) ==
  /\ NotCached(include, exclude, comp.name)
  /\ _vnode' = HostUpdate(VNode(comp, NoInst))
  /\ last' = [op |-> "notcached", key |-> NoKey, removed |-> {}, hit |-> NoKey]
  /\ hitKey' = NoKey
  /\ scenario' = Spoilt
  /\ UNCHANGED << stale, gate, cache, keys, vnodeToCache, keyToCache, props,
                  destroyCount, nextInst, recency >>

\* lines 174-175: make the current key freshest
PromoteKeeps(ks, key) == ks
PromoteFront(ks, key) == << key >> \o Remove(ks, key)
PromoteNoRemove(ks, key) == Append(ks, key)
Promote(ks, key) == Append(Remove(ks, key), key)

\* render(), lines 168-175: cache hit
RenderHit(key, comp) ==
  /\ ~NotCached(include, exclude, comp.name)
  /\ cache[key] # Null
  /\ keys' = Promote(keys, key)
  /\ _vnode' = HostUpdate(VNode(comp, cache[key].componentInstance))
  /\ stale' = (vnodeToCache # NullVNode)
  /\ last' = [op |-> "hit", key |-> key, removed |-> {}, hit |-> NoKey]
  /\ recency' = Touch(recency, key)
  /\ hitKey' = key
  /\ scenario' = Spoilt
  /\ UNCHANGED << gate, cache, vnodeToCache, keyToCache, props,
                  destroyCount, nextInst >>

\* a miss that admits the vnode at once instead of staging it
RenderMissAdmits(key, comp) ==
  /\ ~NotCached(include, exclude, comp.name)
  /\ cache[key] = Null
  /\ nextInst <= MaxInst
  /\ LET vnode == VNode(comp, nextInst)
     IN /\ vnodeToCache' = vnode
        /\ _vnode' = HostUpdate(vnode)
  /\ keys' = Append(keys, key)
  /\ keyToCache' = key
  /\ nextInst' = nextInst + 1
  /\ stale' = FALSE
  /\ last' = [op |-> "miss", key |-> key, removed |-> {}, hit |-> NoKey]
  /\ scenario' = IF vnodeToCache = NullVNode THEN scenario ELSE Spoilt
  /\ UNCHANGED << gate, cache, props, destroyCount, recency, hitKey >>

\* a miss branch that is taken whether or not cache[key] holds an entry
RenderMissAlways(key, comp) ==
  /\ ~NotCached(include, exclude, comp.name)
  /\ nextInst <= MaxInst
  /\ LET vnode == VNode(comp, nextInst)
     IN /\ vnodeToCache' = vnode
        /\ _vnode' = HostUpdate(vnode)
  /\ keyToCache' = key
  /\ nextInst' = nextInst + 1
  /\ stale' = FALSE
  /\ last' = [op |-> "miss", key |-> key, removed |-> {}, hit |-> NoKey]
  /\ scenario' = IF vnodeToCache = NullVNode THEN scenario ELSE Spoilt
  /\ UNCHANGED << gate, cache, keys, props, destroyCount, recency, hitKey >>

\* render(), lines 176-187: cache miss; the host builds a new instance for
\* the vnode before the next hook runs
RenderMiss(key, comp) ==
  /\ ~NotCached(include, exclude, comp.name)
  /\ cache[key] = Null
  /\ nextInst <= MaxInst
  /\ LET vnode == VNode(comp, nextInst)
     IN /\ vnodeToCache' = vnode
        /\ _vnode' = HostUpdate(vnode)
  /\ keyToCache' = key
  /\ nextInst' = nextInst + 1
  /\ stale' = FALSE
  /\ last' = [op |-> "miss", key |-> key, removed |-> {}, hit |-> NoKey]
  /\ scenario' = IF vnodeToCache = NullVNode THEN scenario ELSE Spoilt
  /\ UNCHANGED << gate, cache, keys, props, destroyCount, recency, hitKey >>

\* line 95: this.max && keys.length > parseInt(this.max)
OverflowsLate(ks) == max # 0 /\ Len(ks) > max + 1
Overflows(ks) == max # 0 /\ Len(ks) > max

\* line 96: the key handed to pruneCacheEntry
VictimNewest(ks) == ks[Len(ks)]
Victim(ks) == ks[1]

\* cacheVNode(), lines 81-100, called by mounted() and updated()
CacheVNode ==
  IF vnodeToCache # NullVNode
  THEN LET entry == [name |-> vnodeToCache.name, tag |-> vnodeToCache.tag,
                     componentInstance |-> vnodeToCache.componentInstance]
           c1 == [cache EXCEPT ![keyToCache] = entry]
           k1 == Append(keys, keyToCache)
           r == IF Overflows(k1)
                THEN PruneCacheEntry(c1, Victim(k1), k1, destroyCount, _vnode)
                ELSE [cache |-> c1, keys |-> k1, destroyCount |-> destroyCount]
       IN /\ cache' = r.cache
          /\ keys' = r.keys
          /\ destroyCount' = r.destroyCount
          /\ vnodeToCache' = NullVNode
          /\ last' = [op |-> "commit", key |-> keyToCache,
                      removed |-> Removed(c1, r.cache), hit |-> hitKey]
          /\ recency' = Still(Touch(recency, keyToCache), r.cache)
          /\ hitKey' = NoKey
          /\ scenario' = IF scenario.pure
                         THEN [scenario EXCEPT !.log =
                                 Append(@, [key |-> keyToCache, entry |-> entry])]
                         ELSE Spoilt
          /\ stale' = FALSE
          /\ UNCHANGED << gate, keyToCache, _vnode, props, nextInst >>
  ELSE /\ last' = [op |-> "nocommit", key |-> NoKey, removed |-> {}, hit |-> NoKey]
       /\ hitKey' = NoKey
       /\ UNCHANGED << stale, gate, cache, keys, vnodeToCache, keyToCache, _vnode, props,
                       destroyCount, nextInst, recency, scenario >>

\* the include watcher, lines 116-118
WatchInclude(val) ==
  /\ val # include
  /\ include' = val
  /\ LET r == PruneCache(cache, keys, destroyCount, _vnode,
                         { name \in Names : ~Matches(val, name) })
     IN /\ cache' = r.cache
        /\ keys' = r.keys
        /\ destroyCount' = r.destroyCount
        /\ last' = [op |-> "include", key |-> NoKey,
                    removed |-> Removed(cache, r.cache), hit |-> NoKey]
        /\ recency' = Still(recency, r.cache)
  /\ hitKey' = NoKey
  /\ scenario' = Spoilt
  /\ UNCHANGED << stale, gate, vnodeToCache, keyToCache, _vnode, exclude, max, nextInst >>

\* the exclude watcher, lines 119-121
WatchExclude(val) ==
  /\ val # exclude
  /\ exclude' = val
  /\ LET r == PruneCache(cache, keys, destroyCount, _vnode,
                         { name \in Names : Matches(val, name) })
     IN /\ cache' = r.cache
        /\ keys' = r.keys
        /\ destroyCount' = r.destroyCount
        /\ last' = [op |-> "exclude", key |-> NoKey,
                    removed |-> Removed(cache, r.cache), hit |-> NoKey]
        /\ recency' = Still(recency, r.cache)
  /\ hitKey' = NoKey
  /\ scenario' = Spoilt
  /\ UNCHANGED << stale, gate, vnodeToCache, keyToCache, _vnode, include, max, nextInst >>

\* a teardown that passes the current vnode on to pruneCacheEntry
DestroyedWithCurrent ==
  /\ LET r == PruneKeys(cache, keys, destroyCount, Keys, _vnode)
     IN /\ cache' = r.cache
        /\ keys' = r.keys
        /\ destroyCount' = r.destroyCount
        /\ last' = [op |-> "destroyed", key |-> NoKey,
                    removed |-> Removed(cache, r.cache), hit |-> NoKey]
        /\ recency' = Still(recency, r.cache)
  /\ hitKey' = NoKey
  /\ scenario' = Spoilt
  /\ UNCHANGED << stale, gate, vnodeToCache, keyToCache, _vnode, props, nextInst >>

\* destroyed(), lines 108-112: pruneCacheEntry without `current` for every
\* property of cache
Destroyed ==
  /\ LET r == PruneKeys(cache, keys, destroyCount, Keys, NullVNode)
     IN /\ cache' = r.cache
        /\ keys' = r.keys
        /\ destroyCount' = r.destroyCount
        /\ last' = [op |-> "destroyed", key |-> NoKey,
                    removed |-> Removed(cache, r.cache), hit |-> NoKey]
        /\ recency' = Still(recency, r.cache)
  /\ hitKey' = NoKey
  /\ scenario' = Spoilt
  /\ UNCHANGED << stale, gate, vnodeToCache, keyToCache, _vnode, props, nextInst >>

Next ==
  \/ RenderEmpty
  \/ \E req \in Requests : RenderNotCached(req.key, req.comp)
  \/ \E req \in Requests : RenderHit(req.key, req.comp)
  \/ \E req \in Requests : RenderMiss(req.key, req.comp)
  \/ CacheVNode
  \/ \E val \in Patterns : WatchInclude(val)
  \/ \E val \in ExcludePatterns : WatchExclude(val)
  \/ Destroyed

Spec == Init /\ [][Next]_vars

\* ------------------------------------------- the pattern check on its own
\* names and include / exclude values the pattern check is tried on: absent
\* ones, the empty string and the empty array, strings with one item, with
\* several, with an empty item, and a name that is a prefix of another
GateNames == { NoName, NameA, NameB, <<"a", "b">> }
GatePatterns == { Undefined,
                  Str(<< >>),
                  Str(<<"a">>),
                  Str(<<"a", ",", "b">>),
                  Str(<<",", "a", "b">>),
                  Str(<<"a", "b", ",", "b">>),
                  Arr(<< >>),
                  Arr(<< NameB >>),
                  Arr(<< NameA, <<"a", "b">> >>) }

\* created(), then a render whose slot holds a component of gate.name while
\* the props are gate.include and gate.exclude
InitGate ==
  /\ cache = [key \in Keys |-> Null]
  /\ keys = << >>
  /\ vnodeToCache = NullVNode
  /\ keyToCache = NoKey
  /\ _vnode = NullVNode
  /\ include = Undefined
  /\ exclude = Undefined
  /\ max = 0
  /\ destroyCount = [i \in Insts |-> 0]
  /\ nextInst = 1
  /\ last = [op |-> "created", key |-> NoKey, removed |-> {}, hit |-> NoKey]
  /\ recency = << >>
  /\ hitKey = NoKey
  /\ scenario = [pure |-> TRUE, log |-> << >>]
  /\ stale = FALSE
  /\ gate \in [name : GateNames, include : GatePatterns,
               exclude : GatePatterns, done : {FALSE}, returned : {FALSE}]

\* render(), lines 139-153: returned is TRUE when the vnode is returned
\* at line 152, before the cache is looked at
GateCheck ==
  /\ ~gate.done
  /\ gate' = [gate EXCEPT !.done = TRUE,
                          !.returned = NotCached(gate.include, gate.exclude,
                                                 gate.name)]
  /\ UNCHANGED << stale, cache, keys, vnodeToCache, keyToCache, _vnode, props,
                  destroyCount, nextInst, last, recency, hitKey, scenario >>

SpecGate == InitGate /\ [][GateCheck]_vars

\* ------------------------------------------------------------- claims
\* the keys that occur in a sequence
Range(seq) == { seq[i] : i \in 1..Len(seq) }
\* the keys of the entries the last operation removed
RemovedKeys(l) == { r.key : r \in l.removed }
\* the operations that prune with the current vnode: eviction, policy prune
PrunesWithCurrent(l) == l.op \in {"commit", "include", "exclude"}

\* C1: when max is set, keys never holds more than max keys, in particular
\* after every commit (max is a prop that no operation of the store changes).
CapacityInvariant == max # 0 => Len(keys) <= max

CapacityWitness ==
  /\ last.op = "commit"
  /\ last.removed # {}
  /\ max # 0
  /\ Len(keys) = max

\* C2: no instance has $destroy invoked more than once.
ExactlyOnceDestroy == \A i \in Insts : destroyCount[i] <= 1

\* a teardown destroyed entries after an earlier eviction or prune had
\* destroyed another instance
ExactlyOnceWitness ==
  /\ last.op = "destroyed"
  /\ last.removed # {}
  /\ \E i \in Insts : /\ destroyCount[i] = 1
                      /\ \A r \in last.removed : r.entry.componentInstance # i

\* C3: a key is in keys iff its cache slot holds an entry, and no key is
\* twice in keys.
Lockstep ==
  /\ Range(keys) = Live(cache)
  /\ \A i, j \in 1..Len(keys) : keys[i] = keys[j] => i = j

LockstepWitness ==
  /\ last.op \in {"include", "exclude"}
  /\ last.removed # {}
  /\ Len(keys) >= 1
  /\ Live(cache) # {}

\* the scenario of C4: on the empty store exactly max + 1 candidates were
\* staged and committed, nothing else ran, and the last commit just returned
ScenarioDone ==
  /\ scenario.pure
  /\ max # 0
  /\ Len(scenario.log) = max + 1
  /\ last.op = "commit"

\* what C4 says of k2..k(N+1): they are the keys, in order, with their entries
LaterKeysRemain ==
  /\ keys = [i \in 1..max |-> scenario.log[i + 1].key]
  /\ \A i \in 2..(max + 1) :
       cache[scenario.log[i].key] = scenario.log[i].entry

PromotionSparesHit ==
  [][ /\ last'.op = "hit" => keys'[Len(keys')] = last'.key
      /\ (last'.op = "commit" /\ hitKey # NoKey /\ last'.removed # {}) =>
           /\ RemovedKeys(last') = { Head(keys) }
           /\ cache'[hitKey] # Null
           /\ hitKey \in Range(keys') ]_vars

\* C5 as amended: a hit leaves its key at the tail of keys, and the next
\* commit, when it overflows, evicts the head of keys; the head is not the
\* hit key unless the hit key is the only key in keys (max is 1).
PromotionOnHit ==
  [][ /\ last'.op = "hit" => keys'[Len(keys')] = last'.key
      /\ (last'.op = "commit" /\ hitKey # NoKey /\ last'.removed # {}) =>
           /\ RemovedKeys(last') = { Head(keys) }
           /\ (cache'[hitKey] = Null) = (max = 1)
           /\ (hitKey \notin Range(keys')) = (Len(keys) = 1)
           /\ (Len(keys) = 1) = (max = 1) ]_vars

\* the commit after a hit evicted a younger entry and kept the hit one
PromotionWitness ==
  /\ last.op = "commit"
  /\ last.hit # NoKey
  /\ last.removed # {}
  /\ cache[last.hit] # Null
  /\ \A r \in last.removed :
       cache[last.hit].componentInstance < r.entry.componentInstance

\* C6 as stated: when include or exclude is replaced, the entries pruned are
\* exactly the named entries that the render gate rejects under the new
\* include and exclude.
PolicyPruneExact ==
  [][ last'.op \in {"include", "exclude"} =>
        RemovedKeys(last') =
          { key \in Live(cache) :
              /\ cache[key].name # NoName
              /\ NotCached(include', exclude', cache[key].name) } ]_vars

\* C7: an entry removed by eviction or policy pruning leaves cache and keys;
\* $destroy is not invoked when its tag is the tag of the current vnode and
\* is invoked (once) when the tags differ or there is no current vnode.
TagTieBreak ==
  [][ PrunesWithCurrent(last') =>
        \A r \in last'.removed :
          /\ cache'[r.key] = Null
          /\ r.key \notin Range(keys')
          /\ destroyCount'[r.entry.componentInstance] =
               destroyCount[r.entry.componentInstance] +
                 (IF r.entry.tag = _vnode.tag THEN 0 ELSE 1) ]_vars

TagTieBreakWitness ==
  /\ PrunesWithCurrent(last)
  /\ \E r \in last.removed :
       /\ r.entry.tag = _vnode.tag
       /\ destroyCount[r.entry.componentInstance] = 0

\* C8: teardown empties cache and keys and destroys every instance the cache
\* held, whatever its tag, so that each was destroyed exactly once; it
\* destroys nothing else, so a second teardown destroys nothing.
TeardownTotality ==
  [][ last'.op = "destroyed" =>
        /\ keys' = << >>
        /\ Live(cache') = {}
        /\ \A i \in Insts :
             destroyCount'[i] =
               (IF \E key \in Live(cache) : cache[key].componentInstance = i
                THEN 1 ELSE destroyCount[i]) ]_vars

TeardownWitness ==
  /\ last.op = "destroyed"
  /\ \E r \in last.removed :
       /\ r.entry.tag = _vnode.tag
       /\ destroyCount[r.entry.componentInstance] = 1

\* C9: a miss changes neither cache nor keys, and while a candidate is
\* staged its key is not in keys and keys counts the live entries only.
StagedIsolation ==
  [][ /\ last'.op = "miss" => (cache' = cache /\ keys' = keys)
      /\ vnodeToCache' # NullVNode =>
           /\ keyToCache' \notin Range(keys')
           /\ Len(keys') = Cardinality(Live(cache')) ]_vars

\* a candidate is still staged after another operation ran on a cache that
\* holds entries
StagedWitness ==
  /\ vnodeToCache # NullVNode
  /\ last.op \in {"hit", "include", "exclude", "notcached"}
  /\ Len(keys) >= 1
  /\ keyToCache \notin Range(keys)

\* C10: keys lists the live keys by their last admission or hit, oldest first
\* (recency is that ranking, kept by the history), and the entry a commit
\* evicts is the one whose last admission or hit is the oldest.
RecencyOrder ==
  [][ /\ keys' = recency'
      /\ (last'.op = "commit" /\ last'.removed # {}) =>
           (recency # << >> /\ RemovedKeys(last') = { Head(recency) }) ]_vars

\* max 2; commit A, commit B, hit A, commit C: B is evicted and destroyed
RecencyWitness ==
  /\ max = 2
  /\ last.op = "commit"
  /\ keys = << "A", "C" >>
  /\ cache["A"].componentInstance = 1
  /\ cache["C"].componentInstance = 3
  /\ RemovedKeys(last) = { "B" }
  /\ \A r \in last.removed : r.entry.componentInstance = 2
  /\ destroyCount = [i \in Insts |-> IF i = 2 THEN 1 ELSE 0]

\* name is one of the items of the comma-separated string s
ItemOf(name, s) ==
  /\ \A i \in 1..Len(name) : name[i] # ","
  /\ \E i \in 1..(Len(s) + 1) :
       /\ i = 1 \/ s[i - 1] = ","
       /\ i + Len(name) - 1 <= Len(s)
       /\ \A n \in 1..Len(name) : s[i + n - 1] = name[n]
       /\ i + Len(name) - 1 = Len(s) \/ s[i + Len(name)] = ","

\* a name that is present is matched by an exact list that holds it and by
\* a comma-separated string of which it is an item
Matched(pattern, name) ==
  /\ name # NoName
  /\ \/ pattern.kind = "array" /\ name \in Range(pattern.arr)
     \/ pattern.kind = "string" /\ ItemOf(name, pattern.str)

\* C11 as stated: the pattern check of render rejects exactly when include
\* is set (not absent) and the name is absent or not matched, or exclude is
\* set and the name is matched.
GateAsStated ==
  gate.done =>
    gate.returned =
      ( \/ gate.include # Undefined /\ ~Matched(gate.include, gate.name)
        \/ gate.exclude # Undefined /\ Matched(gate.exclude, gate.name) )

\* C11 as amended: as stated, with an include or exclude that is the empty
\* string counting as not set.
GateCorrect ==
  gate.done =>
    gate.returned =
      ( \/ /\ gate.include \notin { Undefined, Str(<< >>) }
           /\ ~Matched(gate.include, gate.name)
        \/ /\ gate.exclude \notin { Undefined, Str(<< >>) }
           /\ Matched(gate.exclude, gate.name) )

\* a name passed an include string with several items and was rejected by
\* an exclude list
GateWitness ==
  /\ gate.done
  /\ gate.returned
  /\ gate.name = NameB
  /\ gate.include = Str(<<"a", ",", "b">>)
  /\ gate.exclude = Arr(<< NameB >>)

\* the instances the live entries of a cache hold
Held(c) == { c[key].componentInstance : key \in Live(c) }

\* C12: no live entry holds an instance on which $destroy was invoked, and
\* the instance a hit hands out was never destroyed.
NoDestroyWhileReachable ==
  /\ \A i \in Held(cache) : destroyCount[i] = 0
  /\ last.op = "hit" =>
       /\ cache[last.key] # Null
       /\ destroyCount[cache[last.key].componentInstance] = 0

\* a hit handed out an instance that is younger than a destroyed one
NoDestroyWitness ==
  /\ last.op = "hit"
  /\ \E i \in Insts : /\ destroyCount[i] = 1
                      /\ cache[last.key].componentInstance > i

\* C13 as stated: a candidate that a later miss replaced is gone (the only
\* instance a commit adds is the one staged last), and a candidate that was
\* staged before a later hit was served is not admitted by a commit.
AbandonedNeverAdmitted ==
  [][ /\ (last'.op = "miss" /\ vnodeToCache # NullVNode) =>
           vnodeToCache'.componentInstance # vnodeToCache.componentInstance
      /\ last'.op = "commit" =>
           /\ Held(cache') \subseteq
                Held(cache) \cup { vnodeToCache.componentInstance }
           /\ ~stale ]_vars

\* C14 as stated: an entry that eviction or policy pruning removed without
\* invoking $destroy holds the instance of the current vnode.
TieBreakSparesOnlyCurrent ==
  PrunesWithCurrent(last) =>
    \A r \in last.removed :
       destroyCount[r.entry.componentInstance] = 0 =>
         r.entry.componentInstance = _vnode.componentInstance

\* the instances whose destroy count a step raised
Destroying(d, d2) == { i \in Insts : d2[i] # d[i] }

\* C15: a commit removes at most one entry, the head of keys, and destroys
\* at most one instance; a commit with nothing staged changes neither cache
\* nor keys and destroys nothing.
CommitEvictsAtMostOne ==
  [][ /\ last'.op = "commit" =>
           /\ Cardinality(last'.removed) <= 1
           /\ RemovedKeys(last') \subseteq { Head(Append(keys, keyToCache)) }
           /\ Len(keys') >= Len(keys)
           /\ Destroying(destroyCount, destroyCount') \subseteq
                { r.entry.componentInstance : r \in last'.removed }
      /\ last'.op = "nocommit" =>
           /\ cache' = cache
           /\ keys' = keys
           /\ destroyCount' = destroyCount ]_vars

\* a commit evicted one entry and left at least two
CommitEvictsWitness ==
  /\ last.op = "commit"
  /\ Cardinality(last.removed) = 1
  /\ Len(keys) >= 2
  /\ \E r \in last.removed : destroyCount[r.entry.componentInstance] = 1

\* what C16 says of one call of pruneCacheEntry on c, ks, d
PruneFrame(c, key, ks, d, current) ==
  LET r == PruneCacheEntry(c, key, ks, d, current)
  IN /\ r.keys = SelectSeq(ks, LAMBDA k : k # key)
     /\ \A k \in Keys \ { key } : r.cache[k] = c[k]
     /\ r.cache[key] = Null
     /\ Destroying(d, r.destroyCount) \subseteq
          (IF c[key] = Null THEN {} ELSE { c[key].componentInstance })
     /\ c[key] = Null =>
          /\ r.cache = c
          /\ r.keys = ks
          /\ r.destroyCount = d

\* C16: pruneCacheEntry removes only its key, the other keys keep their
\* relative order and their entries, and on a key without a live entry it
\* changes nothing and destroys nothing.  It is stated of a call for any
\* key in the state a policy prune or teardown starts from, and of the
\* whole step, which calls it once per key.
PruneRemovesOnlyKey ==
  [][ last'.op \in {"include", "exclude", "destroyed"} =>
           /\ \A key \in Keys :
                PruneFrame(cache, key, keys, destroyCount,
                           IF last'.op = "destroyed" THEN NullVNode ELSE _vnode)
           /\ keys' = SelectSeq(keys, LAMBDA k : k \notin RemovedKeys(last'))
           /\ \A k \in Keys \ RemovedKeys(last') : cache'[k] = cache[k]
           /\ Destroying(destroyCount, destroyCount') \subseteq
                { r.entry.componentInstance : r \in last'.removed } ]_vars

\* a policy prune removed one entry that was admitted after one of the two
\* entries that remain and before the other
PruneMiddleWitness ==
  /\ last.op \in {"include", "exclude"}
  /\ Len(keys) = 2
  /\ \E r \in last.removed :
       /\ cache[keys[1]].componentInstance < r.entry.componentInstance
       /\ r.entry.componentInstance < cache[keys[2]].componentInstance

\* C17 as stated: every named entry of the cache passes the render gate
\* under the current include and exclude.
PolicyInvariant ==
  \A key \in Live(cache) :
     cache[key].name # NoName =>
       ~NotCached(include, exclude, cache[key].name)

\* the instances of the entries the last operation removed
RemovedInsts(l) == { r.entry.componentInstance : r \in l.removed }

\* C18: while a candidate is staged its key has no live entry, so a commit
\* fills an empty slot, and every instance that leaves the cache in a commit
\* is the one of the evicted entry.
CommitNeverOverwrites ==
  [][ /\ vnodeToCache' # NullVNode => cache'[keyToCache'] = Null
      /\ last'.op = "commit" =>
           /\ cache[keyToCache] = Null
           /\ Held(cache) \ Held(cache') \subseteq RemovedInsts(last')
           /\ \A key \in Live(cache) \ RemovedKeys(last') :
                cache'[key] = cache[key] ]_vars

\* a candidate is staged for a key whose earlier entry was removed, while
\* the cache holds other entries
CommitNeverOverwritesWitness ==
  /\ vnodeToCache # NullVNode
  /\ last.op = "miss"
  /\ Live(cache) # {}
  /\ \E i \in Insts : destroyCount[i] = 1

\* C19: right after a commit with a staged candidate the key of the
\* candidate is the tail of keys, its entry is live and its instance was not
\* destroyed.
CommitKeepsAdmitted ==
  last.op = "commit" =>
    /\ Len(keys) >= 1
    /\ keys[Len(keys)] = last.key
    /\ cache[last.key] # Null
    /\ destroyCount[cache[last.key].componentInstance] = 0

\* with max 1 a commit evicted the only other entry and kept its own
CommitKeepsAdmittedWitness ==
  /\ last.op = "commit"
  /\ max = 1
  /\ last.removed # {}
  /\ keys = << last.key >>

\* the current vnode carries an instance
Displayed == _vnode.componentInstance # NoInst

SameTagAsEntry ==
  \A key \in Live(cache) :
     cache[key].componentInstance = _vnode.componentInstance =>
       cache[key].tag = _vnode.tag

====
